---- MODULE Spec2Model ----
(***************************************************************************)
(* go-env: binding of process environment variables to the fields of a    *)
(* destination struct (parse.go, usage.go, errors.go).                    *)
(*                                                                         *)
(* Go strings are modelled as sequences of one-character strings (Text),  *)
(* so that tag parsing, lower-casing, number formatting and number        *)
(* parsing are computed the way the code computes them.                   *)
(***************************************************************************)
EXTENDS Integers, Sequences, FiniteSets, TLC

VARIABLES
    fields,    \* the destination struct type: its field declarations
    dest,      \* the destination struct value: index path -> field value
    dest0,     \* the destination struct value as it was when NewParser ran
    environ,   \* the process environment: key -> value
    parser,    \* the *Parser returned by NewParser (state, specs, err)
    last,      \* the last operation and the error it returned
    bound,     \* index paths that the last Parse pass assigned from the environment
    out,       \* the text the last call of Help returned
    exited     \* whether the process has been terminated (os.Exit)

vars == <<fields, dest, dest0, environ, parser, last, bound, out, exited>>

----------------------------------------------------------------------------
(* Bounds of the model *)

\* number of fields of the root struct; the fields after the second are
\* declared with one of TailShapes, and their keys are never in the environment
MaxFields == 2

----------------------------------------------------------------------------
(* Text helpers: the parts of package strings / strconv / fmt that are used *)

t_required == <<"r", "e", "q", "u", "i", "r", "e", "d">>
t_name == <<"n", "a", "m", "e">>
t_true == <<"t", "r", "u", "e">>
t_false == <<"f", "a", "l", "s", "e">>

\* strings.Index(s, c) for a one-character c: 1-based position, 0 when absent
RECURSIVE IndexFrom(_, _, _)
IndexFrom(s, c, i) ==
    IF i > Len(s) THEN 0
    ELSE IF s[i] = c THEN i
    ELSE IndexFrom(s, c, i + 1)

Index(s, c) == IndexFrom(s, c, 1)

\* strings.Split(s, sep) for a one-character sep
RECURSIVE Split(_, _)
Split(s, sep) ==
    LET i == Index(s, sep)
    IN  IF i = 0 THEN <<s>>
        ELSE <<SubSeq(s, 1, i - 1)>> \o Split(SubSeq(s, i + 1, Len(s)), sep)

\* strings.TrimLeft(s, " ")
RECURSIVE TrimLeft(_)
TrimLeft(s) ==
    IF s # <<>> /\ s[1] = " " THEN TrimLeft(Tail(s)) ELSE s

\* strings.ToLower on the letters the model uses
LowerChar(c) ==
    CASE c = "A" -> "a"
      [] c = "B" -> "b"
      [] c = "C" -> "c"
      [] c = "D" -> "d"
      [] c = "U" -> "u"
      [] c = "T" -> "t"
      [] c = "V" -> "v"
      [] OTHER -> c

ToLower(s) == [i \in 1..Len(s) |-> LowerChar(s[i])]

Digits == <<"0", "1", "2", "3", "4", "5", "6", "7", "8", "9">>

IsDigit(c) == \E d \in 1..10 : Digits[d] = c

DigitVal(c) == (CHOOSE d \in 1..10 : Digits[d] = c) - 1

\* the digits of s as a number, most significant first
RECURSIVE DigitsVal(_, _)
DigitsVal(s, acc) ==
    IF s = <<>> THEN acc ELSE DigitsVal(Tail(s), 10 * acc + DigitVal(s[1]))

\* strconv.ParseInt(s, 10, 64): optional sign, then one or more digits
ParseInt(s) ==
    LET body == IF s # <<>> /\ s[1] \in {"+", "-"} THEN Tail(s) ELSE s
        neg == s # <<>> /\ s[1] = "-"
    IN  IF body = <<>> \/ \E i \in 1..Len(body) : ~IsDigit(body[i])
        THEN [ok |-> FALSE, n |-> 0]
        ELSE [ok |-> TRUE, n |-> IF neg THEN 0 - DigitsVal(body, 0) ELSE DigitsVal(body, 0)]

\* strconv.ParseBool(s)
ParseBool(s) ==
    IF s \in {<<"1">>, <<"t">>, <<"T">>, t_true, <<"T", "R", "U", "E">>, <<"T", "r", "u", "e">>}
    THEN [ok |-> TRUE, n |-> 1]
    ELSE IF s \in {<<"0">>, <<"f">>, <<"F">>, t_false, <<"F", "A", "L", "S", "E">>,
                   <<"F", "a", "l", "s", "e">>}
    THEN [ok |-> TRUE, n |-> 0]
    ELSE [ok |-> FALSE, n |-> 0]

\* decimal rendering of a natural number
RECURSIVE FormatNat(_)
FormatNat(n) ==
    IF n < 10 THEN <<Digits[n + 1]>> ELSE FormatNat(n \div 10) \o <<Digits[(n % 10) + 1]>>

\* fmt.Sprintf("%v", n) for an integer
FormatInt(n) == IF n < 0 THEN <<"-">> \o FormatNat(0 - n) ELSE FormatNat(n)

\* fmt.Sprintf("%v", xs) for a slice of integers: "[1 2 3]"
RECURSIVE JoinInts(_)
JoinInts(xs) ==
    IF xs = <<>> THEN <<>>
    ELSE IF Len(xs) = 1 THEN FormatInt(xs[1])
    ELSE FormatInt(xs[1]) \o <<" ">> \o JoinInts(Tail(xs))

----------------------------------------------------------------------------
(* Values of destination fields.  Every value is [nil, v]:                 *)
(*   int   n        [nil |-> FALSE, v |-> <<n>>]                            *)
(*   bool  b        [nil |-> FALSE, v |-> <<1>>] / <<0>>                    *)
(*   *int, *T       nil: [nil |-> TRUE, v |-> <<>>]; else the pointee      *)
(*   []int          nil: [nil |-> TRUE, v |-> <<>>]; else the elements     *)
(*   interface{}    nil                                                    *)

IntVal(n) == [nil |-> FALSE, v |-> <<n>>]
NilVal == [nil |-> TRUE, v |-> <<>>]
SliceVal(xs) == [nil |-> FALSE, v |-> xs]

\* reflect.Type.Kind()
Kind(typ) ==
    CASE typ \in {"int"} -> "Int"
      [] typ \in {"bool", "boolUnmarshaler"} -> "Bool"
      [] typ \in {"*int", "*bool", "*T", "*boolUnmarshaler"} -> "Ptr"
      [] typ \in {"[]int", "[]bool", "[]interface{}", "sliceUnmarshaler",
                  "[]textUnmarshaler"} -> "Slice"
      [] typ \in {"T", "textUnmarshaler"} -> "Struct"
      [] OTHER -> "Interface"

\* reflect.Type.Elem() of a pointer or slice type
Elem(typ) ==
    CASE typ = "*int" -> "int"
      [] typ = "*bool" -> "bool"
      [] typ = "*T" -> "T"
      [] typ = "[]int" -> "int"
      [] typ = "[]bool" -> "bool"
      [] typ = "*boolUnmarshaler" -> "boolUnmarshaler"
      [] typ = "sliceUnmarshaler" -> "int"
      [] typ = "[]textUnmarshaler" -> "textUnmarshaler"
      [] OTHER -> "interface{}"

----------------------------------------------------------------------------
(* Errors (errors.go) and the wrapping done by the callers *)

NoErr == [kind |-> "none", where |-> <<>>, token |-> <<>>]

Err(kind, where, token) == [kind |-> kind, where |-> where, token |-> token]

IsErr(e) == e.kind # "none"

----------------------------------------------------------------------------
(* Schema construction: spec, walkFields, walker, lookAtTag, NewParser *)

\* &spec{dest: subdest, name: strings.ToLower(field.Name), typ: field.Type}
NewSpec(index, field) ==
    [dest |-> index, typ |-> field.typ, name |-> ToLower(field.name),
     help |-> <<>>, defaultVal |-> <<>>, multiple |-> FALSE, required |-> FALSE,
     boolean |-> FALSE, hasDefault |-> FALSE]

\* the spec value that stands for a nil *spec
NilSpec == NewSpec(<<>>, [typ |-> "interface{}", name |-> <<>>])

SetDefault(sp, def) == [sp EXCEPT !.defaultVal = def, !.hasDefault = TRUE]

\* canParse(field.Type): (parseable, boolean, multiple)
canParse(typ) ==
    CASE typ \in {"int", "*int"} -> [parseable |-> TRUE, boolean |-> FALSE, multiple |-> FALSE]
      [] typ \in {"bool", "*bool"} -> [parseable |-> TRUE, boolean |-> TRUE, multiple |-> FALSE]
      [] typ = "[]int" -> [parseable |-> TRUE, boolean |-> FALSE, multiple |-> TRUE]
      [] typ = "[]bool" -> [parseable |-> TRUE, boolean |-> TRUE, multiple |-> TRUE]
      [] typ \in {"boolUnmarshaler", "*boolUnmarshaler", "sliceUnmarshaler", "textUnmarshaler"}
             -> [parseable |-> TRUE, boolean |-> FALSE, multiple |-> FALSE]
      [] typ = "[]textUnmarshaler"
             -> [parseable |-> TRUE, boolean |-> FALSE, multiple |-> TRUE]
      [] OTHER -> [parseable |-> FALSE, boolean |-> FALSE, multiple |-> FALSE]

\* the 'required' case of lookAtTag with the hasDefault test left out
requiredCase_NoCheck(sp) == [sp |-> [sp EXCEPT !.required = TRUE], err |-> NoErr]

\* case key == "required": of lookAtTag
requiredCase(sp) ==
    IF sp.hasDefault
    THEN [sp |-> sp, err |-> Err("RequiredWithDefault", <<>>, <<>>)]
    ELSE [sp |-> [sp EXCEPT !.required = TRUE], err |-> NoErr]

\* a loop body that takes a token it does not recognize as the name
lookAtKey_BareName(tok, sp) ==
    IF TrimLeft(tok) = t_required THEN requiredCase(sp)
    ELSE IF Index(TrimLeft(tok), ":") = 0
    THEN [sp |-> [sp EXCEPT !.name = TrimLeft(tok)], err |-> NoErr]
    ELSE [sp |-> [sp EXCEPT !.name = SubSeq(TrimLeft(tok), Index(TrimLeft(tok), ":") + 1,
                                           Len(TrimLeft(tok)))],
          err |-> NoErr]

\* lookAtTag: key = key[:pos] when the trimmed token holds a ':'
tagKey(trimmed) ==
    IF Index(trimmed, ":") # 0 THEN SubSeq(trimmed, 1, Index(trimmed, ":") - 1) ELSE trimmed

\* lookAtTag: value = key[pos+1:] when the trimmed token holds a ':'
tagValue(trimmed) ==
    IF Index(trimmed, ":") # 0
    THEN SubSeq(trimmed, Index(trimmed, ":") + 1, Len(trimmed))
    ELSE <<>>

\* the switch of lookAtTag's loop
switchKey(key, value, sp) ==
    IF key = t_name /\ value # <<>>
    THEN [sp |-> [sp EXCEPT !.name = value], err |-> NoErr]
    ELSE IF key = t_required
    THEN requiredCase(sp)
    ELSE [sp |-> sp, err |-> Err("UnrecognizedTag", <<>>, key)]

\* the body of lookAtTag's loop for one non-empty token
lookAtKey(tok, sp) == switchKey(tagKey(TrimLeft(tok)), tagValue(TrimLeft(tok)), sp)

RECURSIVE lookAtKeys(_, _)
lookAtKeys(keys, sp) ==
    IF keys = <<>> THEN [sp |-> sp, err |-> NoErr]
    ELSE IF Head(keys) = <<>> THEN lookAtKeys(Tail(keys), sp)
    ELSE LET r == lookAtKey(Head(keys), sp)
         IN  IF IsErr(r.err) THEN r ELSE lookAtKeys(Tail(keys), r.sp)

\* lookAtTag fills the spec from the env tag
lookAtTag(tag, sp) == lookAtKeys(Split(tag, ","), sp)

\* the ignore switch that is never honoured
isIgnored_Never(tag) == FALSE

\* tag == "-"
isIgnored(tag) == tag = <<"-">>

\* a slice-default test that never fires
sliceWithDefault_Never(sp) == FALSE

\* sp.multiple && sp.hasDefault
sliceWithDefault(sp) == sp.multiple /\ sp.hasDefault

\* a walk that accepts fields of any type
notSupported_Never(cp) == FALSE

\* walker: if !parseable
notSupported(cp) == ~cp.parseable

\* walker: the spec made for a field and filled from its default tag
taggedSpec(index, field) ==
    IF field.hasDefault
    THEN SetDefault([NewSpec(index, field) EXCEPT !.help = field.help], field.defaultTag)
    ELSE [NewSpec(index, field) EXCEPT !.help = field.help]

\* walker, after lookAtTag returned r and canParse returned cp; where is the
\* qualified name of the field
classify(r, cp, where) ==
    LET sp2 == [r.sp EXCEPT !.boolean = cp.boolean, !.multiple = cp.multiple]
    IN  IF IsErr(r.err)
        THEN [hasSp |-> FALSE, sp |-> NilSpec, expand |-> FALSE,
              err |-> Err(r.err.kind, where, r.err.token)]
        ELSE IF notSupported(cp)
        THEN [hasSp |-> TRUE, sp |-> sp2, expand |-> FALSE,
              err |-> Err("FieldsAreNotSupported", where, <<>>)]
        ELSE IF sliceWithDefault(sp2)
        THEN [hasSp |-> TRUE, sp |-> sp2, expand |-> FALSE,
              err |-> Err("DefaultValueForSlice", where, <<>>)]
        ELSE [hasSp |-> TRUE, sp |-> sp2, expand |-> FALSE, err |-> NoErr]

\* walker: (spec or nil, expand, error) for one field; owner is t.Name()
walker(index, field, owner) ==
    IF isIgnored(field.env)
    THEN [hasSp |-> FALSE, sp |-> NilSpec, expand |-> FALSE, err |-> NoErr]
    ELSE IF field.anonymous /\ Kind(field.typ) = "Struct"
    THEN [hasSp |-> FALSE, sp |-> NilSpec, expand |-> TRUE, err |-> NoErr]
    ELSE classify(lookAtTag(field.env, taggedSpec(index, field)), canParse(field.typ),
                  owner \o <<".">> \o field.name)

\* walkFieldsImpl with the visitor of specsFromStruct: fs are the fields of t
\* (named owner), path the index path of t, acc the specs appended so far
RECURSIVE walkFieldsImpl(_, _, _, _, _)

\* walkFieldsImpl: the rest of the loop body for field i, whose visit returned w
walkField(fs, path, owner, i, acc, w) ==
    LET acc1 == IF w.hasSp THEN Append(acc, w.sp) ELSE acc
    IN  IF IsErr(w.err) THEN [specs |-> acc1, err |-> w.err]
        ELSE IF w.expand
        THEN LET sub == walkFieldsImpl(fs[i].sub, path \o <<i>>, fs[i].name, 1, acc1)
             IN  IF IsErr(sub.err) THEN sub
                 ELSE walkFieldsImpl(fs, path, owner, i + 1, sub.specs)
        ELSE walkFieldsImpl(fs, path, owner, i + 1, acc1)

walkFieldsImpl(fs, path, owner, i, acc) ==
    IF i > Len(fs) THEN [specs |-> acc, err |-> NoErr]
    ELSE walkField(fs, path, owner, i, acc, walker(path \o <<i>>, fs[i], owner))

\* a construction that rejects two slots with the same name
specsFromStruct_Unique(fs) ==
    LET r == walkFieldsImpl(fs, <<>>, <<>>, 1, <<>>)
    IN  IF \E i, j \in 1..Len(r.specs) : i < j /\ r.specs[i].name = r.specs[j].name
        THEN [specs |-> r.specs, err |-> Err("Duplicate", <<>>, <<>>)]
        ELSE r

\* specsFromStruct for a pointer to an unnamed struct with fields fs
specsFromStruct(fs) == walkFieldsImpl(fs, <<>>, <<>>, 1, <<>>)

\* isZero(v)
isZero(typ, v) ==
    IF Kind(typ) = "Slice" THEN v.nil
    ELSE IF Kind(typ) \in {"Ptr", "Interface"} THEN v.nil
    ELSE v.v = <<0>>

\* the text fmt prints for a non-nil pointer (an address)
PtrText == <<"0", "x", "c", "0", "0", "0">>

\* fmt.Sprintf("%v", v)
Sprintv(typ, v) ==
    CASE Kind(typ) = "Int" -> FormatInt(v.v[1])
      [] Kind(typ) = "Bool" -> IF v.v[1] = 1 THEN t_true ELSE t_false
      [] Kind(typ) = "Slice" -> <<"[">> \o JoinInts(v.v) \o <<"]">>
      [] OTHER -> PtrText

\* p.val(dest): the field at the index path
val(d, index) == d[index]

\* implicit defaults that an explicit default tag suppresses
implicitDefault_TagWins(sp, d) ==
    IF ~isZero(sp.typ, val(d, sp.dest)) /\ ~sp.hasDefault
    THEN [sp EXCEPT !.defaultVal = Sprintv(sp.typ, val(d, sp.dest))]
    ELSE sp

\* no implicit defaults at all
implicitDefault_None(sp, d) == sp

\* NewParser: add nonzero field values as defaults
implicitDefault(sp, d) ==
    IF ~isZero(sp.typ, val(d, sp.dest))
    THEN [sp EXCEPT !.defaultVal = Sprintv(sp.typ, val(d, sp.dest))]
    ELSE sp

\* NewParser after specsFromStruct returned r
parserOf(r, d) ==
    IF IsErr(r.err)
    THEN [state |-> "failed", specs |-> <<>>, err |-> r.err]
    ELSE [state |-> "ok",
          specs |-> [i \in 1..Len(r.specs) |-> implicitDefault(r.specs[i], d)],
          err |-> NoErr]

\* NewParser(Config{}, dest) for one destination
newParser(fs, d) == parserOf(specsFromStruct(fs), d)

----------------------------------------------------------------------------
(* Value conversion: scalar.ParseValue and setSlice *)

\* reflect.Zero(t) for the scalar kinds; reflect.New(t).Elem()
Zero(typ) == IF Kind(typ) \in {"Int", "Bool"} THEN IntVal(0) ELSE NilVal

\* the types of the tests whose pointer implements encoding.TextUnmarshaler
implementsTextUnmarshaler(typ) ==
    typ \in {"boolUnmarshaler", "sliceUnmarshaler", "textUnmarshaler"}

\* UnmarshalText of the types of the tests: the value stored for the text b
UnmarshalText(typ, b) ==
    CASE typ = "boolUnmarshaler" -> IntVal(IF Len(b) % 2 = 0 THEN 1 ELSE 0)
      [] typ = "sliceUnmarshaler" -> SliceVal(<<Len(b)>>)
      [] OTHER -> IntVal(Len(b))

\* a conversion that adds the parsed number to the one the field holds
ParseValue_Add(typ, cur, s) ==
    IF Kind(typ) = "Int" /\ ParseInt(s).ok
    THEN [val |-> IntVal(cur.v[1] + ParseInt(s).n), ok |-> TRUE]
    ELSE [val |-> cur, ok |-> FALSE]

\* scalar.ParseValue(v, s): the value v holds afterwards and whether it succeeded.
\* A nil pointer is allocated before the text is parsed, so it stays allocated
\* (pointing to a zero value) when parsing fails.
ParseValue(typ, cur, s) ==
    LET target == IF Kind(typ) = "Ptr" THEN Elem(typ) ELSE typ
        start == IF Kind(typ) = "Ptr" /\ cur.nil THEN IntVal(0) ELSE cur
        r == IF Kind(target) = "Int" THEN ParseInt(s) ELSE ParseBool(s)
    IN  IF implementsTextUnmarshaler(target)
        THEN [val |-> UnmarshalText(target, s), ok |-> TRUE]
        ELSE IF Kind(target) \notin {"Int", "Bool"}
        THEN [val |-> start, ok |-> FALSE]
        ELSE IF r.ok THEN [val |-> IntVal(r.n), ok |-> TRUE]
        ELSE [val |-> start, ok |-> FALSE]

\* csv.NewReader(strings.NewReader(value)).Read() for values without quotes
\* or line breaks: the comma-separated fields, io.EOF for the empty string
csvRead(value) ==
    IF value = <<>> THEN [values |-> <<>>, ok |-> FALSE]
    ELSE [values |-> Split(value, ","), ok |-> TRUE]

\* a setSlice that keeps what the slice held
truncate_Keep(cur) == cur

\* setSlice: truncate the dest slice in case default values exist
truncate(cur) == IF ~cur.nil THEN SliceVal(<<>>) ELSE cur

\* the loop of setSlice: parse each part and append it
RECURSIVE appendParts(_, _, _)
appendParts(elem, acc, values) ==
    IF values = <<>> THEN [val |-> acc, ok |-> TRUE]
    ELSE LET r == ParseValue(elem, Zero(elem), Head(values))
         IN  IF ~r.ok THEN [val |-> acc, ok |-> FALSE]
             ELSE appendParts(elem, SliceVal(acc.v \o r.val.v), Tail(values))

\* a setSlice that writes the slice only when every part converts
setSlice_Restore(typ, cur, values) ==
    IF appendParts(Elem(typ), truncate(cur), values).ok
    THEN appendParts(Elem(typ), truncate(cur), values)
    ELSE [val |-> cur, ok |-> FALSE]

\* setSlice(dest, values)
setSlice(typ, cur, values) == appendParts(Elem(typ), truncate(cur), values)

----------------------------------------------------------------------------
(* The binding pass: Parser.Parse, process, captureEnvVars *)

\* a lookup that ignores the case of the key
LookupEnv_Fold(e, key) ==
    IF \E k \in DOMAIN e : ToLower(k) = ToLower(key)
    THEN [value |-> e[CHOOSE k \in DOMAIN e : ToLower(k) = ToLower(key)], found |-> TRUE]
    ELSE [value |-> <<>>, found |-> FALSE]

\* os.LookupEnv(key)
LookupEnv(e, key) ==
    IF key \in DOMAIN e THEN [value |-> e[key], found |-> TRUE]
    ELSE [value |-> <<>>, found |-> FALSE]

\* a pass that splits the value of every slot whose type is a slice
isMultiple_ByKind(sp) == Kind(sp.typ) = "Slice"

\* a pass that binds a slot as a single value when it is flagged boolean
isMultiple_NotBoolean(sp) == sp.multiple /\ ~sp.boolean

\* captureEnvVars: if spec.multiple
isMultiple(sp) == sp.multiple

\* a pass that allocates the nil pointers whose key is not found
notFound_Alloc(typ, cur) == IF Kind(typ) = "Ptr" /\ cur.nil THEN IntVal(0) ELSE cur

\* a pass that clears the fields whose key is not found
notFound_Reset(typ, cur) == IF Kind(typ) \in {"Int", "Bool"} THEN Zero(typ) ELSE cur

\* captureEnvVars: if !found { continue }
notFound(typ, cur) == cur

\* captureEnvVars from spec i on; present is wasPresent (as spec indices)
RECURSIVE captureFrom(_, _, _, _, _)
captureFrom(specs, i, d, present, e) ==
    IF i > Len(specs) THEN [dest |-> d, present |-> present, err |-> NoErr]
    ELSE
    LET sp == specs[i]
        l == LookupEnv(e, sp.name)
        cur == val(d, sp.dest)
    IN  IF ~l.found
        THEN captureFrom(specs, i + 1, [d EXCEPT ![sp.dest] = notFound(sp.typ, cur)], present, e)
        ELSE IF isMultiple(sp)
        THEN LET c == csvRead(l.value)
                 r == setSlice(sp.typ, cur, c.values)
             IN  IF ~c.ok
                 THEN [dest |-> d, present |-> present, err |-> Err("CSV", sp.name, <<>>)]
                 ELSE IF ~r.ok
                 THEN [dest |-> [d EXCEPT ![sp.dest] = r.val], present |-> present,
                       err |-> Err("EnvVarMultiple", sp.name, <<>>)]
                 ELSE captureFrom(specs, i + 1, [d EXCEPT ![sp.dest] = r.val],
                                  present \cup {i}, e)
        ELSE LET r == ParseValue(sp.typ, cur, l.value)
             IN  IF ~r.ok
                 THEN [dest |-> [d EXCEPT ![sp.dest] = r.val], present |-> present,
                       err |-> Err("EnvVar", sp.name, <<>>)]
                 ELSE captureFrom(specs, i + 1, [d EXCEPT ![sp.dest] = r.val],
                                  present \cup {i}, e)

captureEnvVars(specs, d, e) == captureFrom(specs, 1, d, {}, e)

\* a required test that a nonzero field satisfies
requiredMissing_Nonzero(sp, cur) == sp.required /\ isZero(sp.typ, cur)

\* process: if spec.required { return ErrorFieldIsRequired }
requiredMissing(sp, cur) == sp.required

\* a default that only fills fields that are still zero
hasDefaultVal_Unset(sp, cur) == sp.defaultVal # <<>> /\ isZero(sp.typ, cur)

\* a default that is applied whenever the field has a default tag
hasDefaultVal_Tag(sp, cur) == sp.hasDefault

\* process: if spec.defaultVal != ""
hasDefaultVal(sp, cur) == sp.defaultVal # <<>>

\* a second loop that goes on to the slots after the one that failed and
\* returns the first error at the end
RECURSIVE fillFrom_Continue(_, _, _, _)
fillFrom_Continue(specs, i, d, present) ==
    IF i > Len(specs) THEN [dest |-> d, err |-> NoErr]
    ELSE IF i \in present THEN fillFrom_Continue(specs, i + 1, d, present)
    ELSE IF specs[i].required
    THEN [dest |-> fillFrom_Continue(specs, i + 1, d, present).dest,
          err |-> Err("FieldIsRequired", specs[i].name, <<>>)]
    ELSE IF specs[i].defaultVal = <<>> THEN fillFrom_Continue(specs, i + 1, d, present)
    ELSE IF ~ParseValue(specs[i].typ, d[specs[i].dest], specs[i].defaultVal).ok
    THEN [dest |-> fillFrom_Continue(specs, i + 1, d, present).dest,
          err |-> Err("DefaultValue", specs[i].name, <<>>)]
    ELSE fillFrom_Continue(
             specs, i + 1,
             [d EXCEPT ![specs[i].dest] =
                  ParseValue(specs[i].typ, d[specs[i].dest], specs[i].defaultVal).val],
             present)

\* a default filling that sends the literal of a slice through csv and setSlice
parseDefault_Multi(typ, cur, s) ==
    IF Kind(typ) = "Slice" /\ ~implementsTextUnmarshaler(typ)
    THEN setSlice(typ, cur, csvRead(s).values)
    ELSE ParseValue(typ, cur, s)

\* process: scalar.ParseValue(p.val(spec.dest), spec.defaultVal)
parseDefault(typ, cur, s) == ParseValue(typ, cur, s)

\* the second loop of process from spec i on
RECURSIVE fillFrom(_, _, _, _)
fillFrom(specs, i, d, present) ==
    IF i > Len(specs) THEN [dest |-> d, err |-> NoErr]
    ELSE
    LET sp == specs[i]
        cur == val(d, sp.dest)
        r == parseDefault(sp.typ, cur, sp.defaultVal)
    IN  IF i \in present THEN fillFrom(specs, i + 1, d, present)
        ELSE IF requiredMissing(sp, cur)
        THEN [dest |-> d, err |-> Err("FieldIsRequired", sp.name, <<>>)]
        ELSE IF hasDefaultVal(sp, cur)
        THEN IF ~r.ok
             THEN [dest |-> [d EXCEPT ![sp.dest] = r.val],
                   err |-> Err("DefaultValue", sp.name, <<>>)]
             ELSE fillFrom(specs, i + 1, [d EXCEPT ![sp.dest] = r.val], present)
        ELSE fillFrom(specs, i + 1, d, present)

\* a pass that checks required and fills defaults before it converts the
\* values of the environment
process_RequiredFirst(specs, d, e) ==
    LET found == {i \in 1..Len(specs) : LookupEnv(e, specs[i].name).found}
        f == fillFrom(specs, 1, d, found)
        c == captureEnvVars(specs, f.dest, e)
    IN  IF IsErr(f.err) THEN [dest |-> f.dest, present |-> {}, err |-> f.err]
        ELSE [dest |-> c.dest, present |-> c.present, err |-> c.err]

\* process: capture the environment, then fill defaults and check required
process(specs, d, e) ==
    LET c == captureEnvVars(specs, d, e)
        f == fillFrom(specs, 1, c.dest, c.present)
    IN  IF IsErr(c.err) THEN [dest |-> c.dest, present |-> c.present, err |-> c.err]
        ELSE [dest |-> f.dest, present |-> c.present, err |-> f.err]

----------------------------------------------------------------------------
(* Help: the default annotation of an option (usage.go) *)

\* printTwoCols: the bracketed text that follows the help of an option
defaultAnnotation(defaultVal) ==
    IF defaultVal # <<>>
    THEN <<" ", "[">> \o <<"d", "e", "f", "a", "u", "l", "t", ":", " ">> \o defaultVal \o <<"]">>
    ELSE <<>>

\* the width of the left column
colWidth == 25

\* strings.Repeat(" ", n)
Repeat(n) == [i \in 1..n |-> " "]

\* printTwoCols: one line of the help, for the option named left
printTwoCols(left, help, defaultVal) ==
    LET lhs == <<" ", " ">> \o left
    IN  lhs
        \o (IF help = <<>> THEN <<>>
            ELSE IF Len(lhs) + 2 < colWidth
            THEN Repeat(colWidth - Len(lhs)) \o help
            ELSE <<"\n">> \o Repeat(colWidth) \o help)
        \o defaultAnnotation(defaultVal)
        \o <<"\n">>

\* synopsis(spec, form)
synopsis(sp, form) == form

\* a printOption that reads the default from the field as it is now
printOption_Live(d, sp) ==
    printTwoCols(synopsis(sp, sp.name), sp.help,
                 IF ~isZero(sp.typ, val(d, sp.dest)) THEN Sprintv(sp.typ, val(d, sp.dest))
                 ELSE sp.defaultVal)

\* Parser.printOption for a parser whose root is the struct value d
printOption(d, sp) == printTwoCols(synopsis(sp, sp.name), sp.help, sp.defaultVal)

\* the lines of the options from spec i on
RECURSIVE printOptions(_, _, _)
printOptions(d, specs, i) ==
    IF i > Len(specs) THEN <<>>
    ELSE printOption(d, specs[i]) \o printOptions(d, specs, i + 1)

\* Parser.writeHelp, for a destination without a description
writeHelp(d, specs) ==
    IF Len(specs) > 0
    THEN <<"E", "n", "v", "i", "r", "o", "n", "m", "e", "n", "t", "s", ":", "\n">>
             \o printOptions(d, specs, 1)
    ELSE <<>>

----------------------------------------------------------------------------
(* The destination structs and environments the model ranges over *)

\* a field declaration without its name
Shape(typ, anonymous, env, hasDefault, defaultTag) ==
    [typ |-> typ, anonymous |-> anonymous, env |-> env, hasDefault |-> hasDefault,
     defaultTag |-> defaultTag, help |-> <<>>]

Shapes ==
    { Shape("int", FALSE, <<>>, FALSE, <<>>),               \* X int
      Shape("int", FALSE, t_required, FALSE, <<>>),         \* X int `env:"required"`
      Shape("int", FALSE, <<>>, TRUE, <<"2">>),             \* X int `default:"2"`
      Shape("int", FALSE, <<>>, TRUE, <<"x">>),             \* X int `default:"x"`
      Shape("int", FALSE, <<>>, TRUE, <<>>),                \* X int `default:""`
      Shape("int", FALSE, t_required, TRUE, <<"2">>),       \* X int `env:"required" default:"2"`
      Shape("bool", FALSE, <<>>, TRUE, t_true),             \* X bool `default:"true"`
      Shape("*int", FALSE, <<>>, FALSE, <<>>),              \* X *int
      Shape("[]int", FALSE, <<>>, FALSE, <<>>),             \* X []int
      Shape("[]int", FALSE, <<>>, TRUE, <<"2">>),           \* X []int `default:"2"`
      Shape("[]int", FALSE, t_required, TRUE, <<"2">>),     \* X []int `env:"required" default:"2"`
      Shape("interface{}", FALSE, <<"-">>, FALSE, <<>>),    \* X interface{} `env:"-"`
      Shape("interface{}", FALSE, <<>>, FALSE, <<>>),       \* X interface{}
      Shape("T", TRUE, <<>>, FALSE, <<>>),                  \* T          (embedded struct)
      Shape("T", TRUE, <<"-">>, FALSE, <<>>),               \* T `env:"-"`
      Shape("*T", TRUE, <<"-">>, FALSE, <<>>) }             \* *T `env:"-"`

\* names of the fields of the root struct, by position
FieldNames == << <<"A">>, <<"B">>, <<"C">>, <<"D">> >>

\* names of the embedded struct types, by position
EmbNames == << <<"T">>, <<"U">>, <<"V">>, <<"W">> >>

\* the fields of an embedded struct type: struct { A int }
TFields ==
    << [name |-> <<"A">>, typ |-> "int", anonymous |-> FALSE, env |-> <<>>,
        hasDefault |-> FALSE, defaultTag |-> <<>>, help |-> <<>>, sub |-> <<>>] >>

\* the reflect.StructField at position i declared with the given shape
MkField(shape, i) ==
    [name |-> IF shape.anonymous THEN EmbNames[i] ELSE FieldNames[i],
     typ |-> shape.typ, anonymous |-> shape.anonymous, env |-> shape.env,
     hasDefault |-> shape.hasDefault, defaultTag |-> shape.defaultTag,
     help |-> shape.help,
     sub |-> IF Kind(shape.typ) = "Struct" THEN TFields ELSE <<>>]

\* the declarations of the fields after the second
TailShapes ==
    { Shape("int", FALSE, <<>>, FALSE, <<>>),               \* X int
      Shape("int", FALSE, t_required, FALSE, <<>>) }        \* X int `env:"required"`

RECURSIVE ShapeSeqs(_)
ShapeSeqs(n) ==
    IF n = 0 THEN {<<>>}
    ELSE {Append(ss, sh) : ss \in ShapeSeqs(n - 1),
                           sh \in IF n <= 2 THEN Shapes ELSE TailShapes}

\* the struct types: one to MaxFields fields
Structs ==
    UNION { {[i \in 1..n |-> MkField(ss[i], i)] : ss \in ShapeSeqs(n)} : n \in 1..MaxFields }

\* the storage locations of a struct value: index path and type of every
\* field that is not an embedded struct
RECURSIVE Leaves(_, _, _)
Leaves(fs, path, i) ==
    IF i > Len(fs) THEN <<>>
    ELSE (IF fs[i].anonymous /\ Kind(fs[i].typ) = "Struct"
          THEN Leaves(fs[i].sub, path \o <<i>>, 1)
          ELSE << [path |-> path \o <<i>>, typ |-> fs[i].typ] >>)
         \o Leaves(fs, path, i + 1)

\* the values a field of the given type may hold before NewParser
InitVals(typ) ==
    CASE typ = "int" -> {IntVal(0), IntVal(3)}
      [] typ = "bool" -> {IntVal(0), IntVal(1)}
      [] typ = "boolUnmarshaler" -> {IntVal(0)}
      [] typ = "[]int" -> {NilVal, SliceVal(<<4>>)}
      [] typ = "*T" -> {NilVal, IntVal(3)}
      [] OTHER -> {NilVal}

RECURSIVE InitSeqs(_)
InitSeqs(leaves) ==
    IF leaves = <<>> THEN {<<>>}
    ELSE {<<v>> \o rest : v \in InitVals(Head(leaves).typ), rest \in InitSeqs(Tail(leaves))}

\* the struct values of type fs
Dests(fs) ==
    LET leaves == Leaves(fs, <<>>, 1)
    IN  { [p \in {leaves[k].path : k \in 1..Len(leaves)} |->
              vs[CHOOSE k \in 1..Len(leaves) : leaves[k].path = p]] : vs \in InitSeqs(leaves) }

\* environment keys and values
Keys == {<<"a">>, <<"b">>}

EnvValues == {<<"1">>, <<"3", ",", "1">>, <<"x">>}

\* the process environments: any of the keys set to any of the values
Envs == UNION {[ks -> EnvValues] : ks \in SUBSET Keys}

----------------------------------------------------------------------------
(* The state machine *)

Op(op, err) == [op |-> op, err |-> err]

Init ==
    /\ fields \in Structs
    /\ dest \in Dests(fields)
    /\ dest0 = dest
    /\ environ \in Envs
    /\ parser = [state |-> "none", specs |-> <<>>, err |-> NoErr]
    /\ last = Op("Init", NoErr)
    /\ bound = {}
    /\ out = <<>>
    /\ exited = FALSE

\* p, err := NewParser(Config{}, &dest)
NewParser ==
    /\ parser.state = "none"
    /\ parser' = newParser(fields, dest)
    /\ dest0' = dest
    /\ last' = Op("NewParser", parser'.err)
    /\ UNCHANGED <<fields, dest, environ, bound, out, exited>>

\* err = p.Parse(), run while the process environment is e
Parse(e) ==
    /\ parser.state = "ok"
    /\ environ' = e
    /\ \E r \in {process(parser.specs, dest, e)} :
           /\ dest' = r.dest
           /\ last' = Op("Parse", r.err)
           /\ bound' = {parser.specs[i].dest : i \in r.present}
    /\ UNCHANGED <<fields, dest0, parser, out, exited>>

Next ==
    \/ NewParser
    \/ \E e \in Envs : Parse(e)

Spec == Init /\ [][Next]_vars

----------------------------------------------------------------------------
(* Structs whose fields carry env tags with options, and their environments *)

\* the field declarations with env tags
TagShapes ==
    { Shape("int", FALSE, <<>>, FALSE, <<>>),                       \* X int
      Shape("int", FALSE, t_name \o <<":", "v">>, FALSE, <<>>),     \* `env:"name:v"`
      Shape("int", FALSE, t_name \o <<":", "V">>, FALSE, <<>>),     \* `env:"name:V"`
      Shape("int", FALSE, <<"v">>, FALSE, <<>>),                    \* `env:"v"`
      Shape("int", FALSE, t_name \o <<":">>, FALSE, <<>>),          \* `env:"name:"`
      Shape("int", FALSE, t_required \o <<",", " ">> \o t_name \o <<":", "v">>,
            FALSE, <<>>),                                           \* `env:"required, name:v"`
      Shape("int", FALSE, t_name \o <<":", "v", ",", ",">> \o t_name \o <<":", "V">>,
            FALSE, <<>>),                                           \* `env:"name:v,,name:V"`
      Shape("int", FALSE, <<"x", ":", "1">>, FALSE, <<>>) }         \* `env:"x:1"`

RECURSIVE TagShapeSeqs(_)
TagShapeSeqs(n) ==
    IF n = 0 THEN {<<>>}
    ELSE {Append(ss, sh) : ss \in TagShapeSeqs(n - 1),
                           sh \in IF n <= 2 THEN TagShapes ELSE TailShapes}

TagStructs ==
    UNION { {[i \in 1..n |-> MkField(ss[i], i)] : ss \in TagShapeSeqs(n)} : n \in 1..MaxFields }

TagKeys == {<<"a">>, <<"v">>, <<"V">>}

TagValues == {<<"1">>, <<"x">>}

TagEnvs == UNION {[ks -> TagValues] : ks \in SUBSET TagKeys}

InitTags ==
    /\ fields \in TagStructs
    /\ dest \in Dests(fields)
    /\ dest0 = dest
    /\ environ \in TagEnvs
    /\ parser = [state |-> "none", specs |-> <<>>, err |-> NoErr]
    /\ last = Op("Init", NoErr)
    /\ bound = {}
    /\ out = <<>>
    /\ exited = FALSE

NextTags ==
    \/ NewParser
    \/ \E e \in TagEnvs : Parse(e)

SpecTags == InitTags /\ [][NextTags]_vars

----------------------------------------------------------------------------
(* Structs with pointer fields, text unmarshalers and unsupported types *)

TypeShapes ==
    { Shape("int", FALSE, <<>>, FALSE, <<>>),                 \* X int
      Shape("*int", FALSE, <<>>, FALSE, <<>>),                \* X *int
      Shape("*int", FALSE, <<>>, TRUE, <<"2">>),              \* X *int `default:"2"`
      Shape("*boolUnmarshaler", FALSE, <<>>, FALSE, <<>>),    \* X *boolUnmarshaler
      Shape("boolUnmarshaler", FALSE, <<>>, FALSE, <<>>),     \* X boolUnmarshaler
      Shape("sliceUnmarshaler", FALSE, <<>>, FALSE, <<>>),    \* X sliceUnmarshaler
      Shape("[]textUnmarshaler", FALSE, <<>>, FALSE, <<>>),   \* X []textUnmarshaler
      Shape("interface{}", FALSE, <<>>, FALSE, <<>>),         \* X interface{}
      Shape("[]interface{}", FALSE, <<>>, FALSE, <<>>),       \* X []interface{}
      Shape("T", FALSE, <<>>, FALSE, <<>>),                   \* X T   (a named struct field)
      Shape("*T", TRUE, <<>>, FALSE, <<>>) }                  \* *T    (embedded pointer)

RECURSIVE TypeShapeSeqs(_)
TypeShapeSeqs(n) ==
    IF n = 0 THEN {<<>>}
    ELSE {Append(ss, sh) : ss \in TypeShapeSeqs(n - 1),
                           sh \in IF n <= 2 THEN TypeShapes ELSE TailShapes}

TypeStructs ==
    UNION { {[i \in 1..n |-> MkField(ss[i], i)] : ss \in TypeShapeSeqs(n)} : n \in 1..MaxFields }

TypeValues == {<<"1">>, <<"1", "2">>, <<"3", ",", "1">>}

TypeEnvs == UNION {[ks -> TypeValues] : ks \in SUBSET Keys}

InitTypes ==
    /\ fields \in TypeStructs
    /\ dest \in Dests(fields)
    /\ dest0 = dest
    /\ environ \in TypeEnvs
    /\ parser = [state |-> "none", specs |-> <<>>, err |-> NoErr]
    /\ last = Op("Init", NoErr)
    /\ bound = {}
    /\ out = <<>>
    /\ exited = FALSE

NextTypes ==
    \/ NewParser
    \/ \E e \in TypeEnvs : Parse(e)

SpecTypes == InitTypes /\ [][NextTypes]_vars

----------------------------------------------------------------------------
(* The entry points, Help and a caller that assigns fields between calls *)

ApiShapes ==
    { Shape("int", FALSE, <<>>, FALSE, <<>>),                         \* X int
      Shape("int", FALSE, t_required, FALSE, <<>>),                   \* X int `env:"required"`
      [Shape("int", FALSE, <<>>, TRUE, <<"2">>) EXCEPT !.help = <<"h">>],
                                                                      \* X int `default:"2" help:"h"`
      Shape("interface{}", FALSE, <<>>, FALSE, <<>>) }                \* X interface{}

RECURSIVE ApiShapeSeqs(_)
ApiShapeSeqs(n) ==
    IF n = 0 THEN {<<>>}
    ELSE {Append(ss, sh) : ss \in ApiShapeSeqs(n - 1),
                           sh \in IF n <= 2 THEN ApiShapes ELSE TailShapes}

ApiStructs ==
    UNION { {[i \in 1..n |-> MkField(ss[i], i)] : ss \in ApiShapeSeqs(n)} : n \in 1..MaxFields }

\* the environments of these structs: the key of the first field, or none
ApiEnvs == UNION {[ks -> {<<"1">>, <<"x">>}] : ks \in SUBSET {<<"a">>}}

InitApi ==
    /\ fields \in ApiStructs
    /\ dest \in Dests(fields)
    /\ dest0 = dest
    /\ environ \in ApiEnvs
    /\ parser = [state |-> "none", specs |-> <<>>, err |-> NoErr]
    /\ last = Op("Init", NoErr)
    /\ bound = {}
    /\ out = <<>>
    /\ exited = FALSE

\* the outcome of p.Parse() when it returned r
parsed(p, r) ==
    [parser |-> p, dest |-> r.dest, ran |-> TRUE,
     bound |-> {p.specs[i].dest : i \in r.present}, err |-> r.err]

\* MustParse / Parse after NewParser returned p
parseWith(p, d, e) ==
    IF IsErr(p.err)
    THEN [parser |-> p, dest |-> d, ran |-> FALSE, bound |-> {}, err |-> p.err]
    ELSE parsed(p, process(p.specs, d, e))

\* NewParser followed by Parse on the struct fs with value d in environment
\* e: the parser made, the value of the struct afterwards, whether the pass
\* ran, the fields it bound and the error returned
oneShot(fs, d, e) == parseWith(newParser(fs, d), d, e)

\* p, err := MustParse(&dest), run while the process environment is e; on an
\* error the parser returned is nil
MustParse(e) ==
    /\ parser.state = "none"
    /\ environ' = e
    /\ dest0' = dest
    /\ \E m \in {oneShot(fields, dest, e)} :
           /\ dest' = m.dest
           /\ bound' = IF m.ran THEN m.bound ELSE bound
           /\ last' = Op("MustParse", m.err)
           /\ parser' = IF IsErr(m.err)
                        THEN [state |-> "failed", specs |-> <<>>, err |-> m.err]
                        ELSE m.parser
    /\ UNCHANGED <<fields, out, exited>>

\* err := Parse(&dest), the one-shot function, run while the process
\* environment is e; its parser is not returned
ParseDest(e) ==
    /\ parser.state = "none"
    /\ environ' = e
    /\ \E m \in {oneShot(fields, dest, e)} :
           /\ dest' = m.dest
           /\ bound' = IF m.ran THEN m.bound ELSE bound
           /\ last' = Op("ParseDest", m.err)
    /\ UNCHANGED <<fields, dest0, parser, out, exited>>

\* help := p.Help()
Help ==
    /\ parser.state = "ok"
    /\ out' = writeHelp(dest, parser.specs)
    /\ last' = Op("Help", NoErr)
    /\ UNCHANGED <<fields, dest, dest0, environ, parser, bound, exited>>

\* the caller assigns 5 to an int field of the destination
Set(p) ==
    /\ parser.state = "ok"
    /\ dest[p] # IntVal(5)
    /\ dest' = [dest EXCEPT ![p] = IntVal(5)]
    /\ last' = Op("Set", NoErr)
    /\ UNCHANGED <<fields, dest0, environ, parser, bound, out, exited>>

NextApi ==
    \/ NewParser
    \/ \E e \in ApiEnvs : Parse(e)
    \/ \E e \in ApiEnvs : MustParse(e)
    \/ \E e \in ApiEnvs : ParseDest(e)
    \/ Help
    \/ \E p \in DOMAIN dest : Set(p)

SpecApi == InitApi /\ [][NextApi]_vars

----------------------------------------------------------------------------
(* Structs with boolean and slice fields, and their environments *)

\* the field declarations of TestCanParse's types
KindShapes ==
    { Shape("int", FALSE, <<>>, FALSE, <<>>),                 \* X int
      Shape("bool", FALSE, <<>>, FALSE, <<>>),                \* X bool
      Shape("*bool", FALSE, <<>>, FALSE, <<>>),               \* X *bool
      Shape("[]bool", FALSE, <<>>, FALSE, <<>>),              \* X []bool
      Shape("[]int", FALSE, <<>>, FALSE, <<>>) }              \* X []int

RECURSIVE KindShapeSeqs(_)
KindShapeSeqs(n) ==
    IF n = 0 THEN {<<>>}
    ELSE {Append(ss, sh) : ss \in KindShapeSeqs(n - 1),
                           sh \in IF n <= 2 THEN KindShapes ELSE TailShapes}

KindStructs ==
    UNION { {[i \in 1..n |-> MkField(ss[i], i)] : ss \in KindShapeSeqs(n)} : n \in 1..MaxFields }

KindValues == {<<"1">>, <<"1", ",", "0">>, <<"x">>, <<"1", ",", "x">>}

KindEnvs == UNION {[ks -> KindValues] : ks \in SUBSET Keys}

InitKinds ==
    /\ fields \in KindStructs
    /\ dest \in Dests(fields)
    /\ dest0 = dest
    /\ environ \in KindEnvs
    /\ parser = [state |-> "none", specs |-> <<>>, err |-> NoErr]
    /\ last = Op("Init", NoErr)
    /\ bound = {}
    /\ out = <<>>
    /\ exited = FALSE

NextKinds ==
    \/ NewParser
    \/ \E e \in KindEnvs : Parse(e)

SpecKinds == InitKinds /\ [][NextKinds]_vars

----------------------------------------------------------------------------
(* Structs whose fields carry an empty default tag, and their environments *)

\* the field declarations with default:""
EmptyShapes ==
    { Shape("int", FALSE, <<>>, FALSE, <<>>),               \* X int
      Shape("int", FALSE, <<>>, TRUE, <<>>),                \* X int `default:""`
      Shape("int", FALSE, t_required, TRUE, <<>>),          \* X int `env:"required" default:""`
      Shape("[]int", FALSE, <<>>, TRUE, <<>>) }             \* X []int `default:""`

RECURSIVE EmptyShapeSeqs(_)
EmptyShapeSeqs(n) ==
    IF n = 0 THEN {<<>>}
    ELSE {Append(ss, sh) : ss \in EmptyShapeSeqs(n - 1),
                           sh \in IF n <= 2 THEN EmptyShapes ELSE TailShapes}

EmptyStructs ==
    UNION { {[i \in 1..n |-> MkField(ss[i], i)] : ss \in EmptyShapeSeqs(n)} : n \in 1..MaxFields }

EmptyEnvs == UNION {[ks -> {<<"1">>}] : ks \in SUBSET Keys}

InitEmpty ==
    /\ fields \in EmptyStructs
    /\ dest \in Dests(fields)
    /\ dest0 = dest
    /\ environ \in EmptyEnvs
    /\ parser = [state |-> "none", specs |-> <<>>, err |-> NoErr]
    /\ last = Op("Init", NoErr)
    /\ bound = {}
    /\ out = <<>>
    /\ exited = FALSE

NextEmpty ==
    \/ NewParser
    \/ \E e \in EmptyEnvs : Parse(e)
    \/ Help

SpecEmpty == InitEmpty /\ [][NextEmpty]_vars

----------------------------------------------------------------------------
(* Structs whose passes fail in either loop, and their environments *)

\* the field declarations: required, with a default that converts or not, slice
StopShapes ==
    { Shape("int", FALSE, <<>>, FALSE, <<>>),               \* X int
      Shape("int", FALSE, t_required, FALSE, <<>>),         \* X int `env:"required"`
      Shape("int", FALSE, <<>>, TRUE, <<"2">>),             \* X int `default:"2"`
      Shape("int", FALSE, <<>>, TRUE, <<"x">>),             \* X int `default:"x"`
      Shape("[]int", FALSE, <<>>, FALSE, <<>>) }            \* X []int

RECURSIVE StopShapeSeqs(_)
StopShapeSeqs(n) ==
    IF n = 0 THEN {<<>>}
    ELSE {Append(ss, sh) : ss \in StopShapeSeqs(n - 1),
                           sh \in IF n <= 2 THEN StopShapes ELSE TailShapes}

StopStructs ==
    UNION { {[i \in 1..n |-> MkField(ss[i], i)] : ss \in StopShapeSeqs(n)} : n \in 1..MaxFields }

StopEnvs == UNION {[ks -> {<<"1">>, <<"x">>}] : ks \in SUBSET Keys}

InitStop ==
    /\ fields \in StopStructs
    /\ dest \in Dests(fields)
    /\ dest0 = dest
    /\ environ \in StopEnvs
    /\ parser = [state |-> "none", specs |-> <<>>, err |-> NoErr]
    /\ last = Op("Init", NoErr)
    /\ bound = {}
    /\ out = <<>>
    /\ exited = FALSE

NextStop ==
    \/ NewParser
    \/ \E e \in StopEnvs : Parse(e)

SpecStop == InitStop /\ [][NextStop]_vars

----------------------------------------------------------------------------
(* Vocabulary of the properties *)

Specs == parser.specs

SlotIds == 1..Len(parser.specs)

\* the least element of a non-empty set of slot numbers
First(S) == CHOOSE i \in S : \A j \in S : i <= j

\* the slot's key is in the environment e
Present(sp, e) == sp.name \in DOMAIN e

\* the environment value of a present slot converts to the slot's type
Converts(sp, e) ==
    IF sp.multiple
    THEN /\ csvRead(e[sp.name]).ok
         /\ setSlice(sp.typ, NilVal, csvRead(e[sp.name]).values).ok
    ELSE ParseValue(sp.typ, Zero(sp.typ), e[sp.name]).ok

AllPresentConvert(e) ==
    \A i \in SlotIds : Present(Specs[i], e) => Converts(Specs[i], e)

\* the default literal of every absent slot that has one converts
NoDefaultFails(e) ==
    \A i \in SlotIds :
        (~Present(Specs[i], e) /\ Specs[i].defaultVal # <<>>)
            => ParseValue(Specs[i].typ, Zero(Specs[i].typ), Specs[i].defaultVal).ok

\* the required slots whose key is not in e
AbsentRequired(e) == {i \in SlotIds : Specs[i].required /\ ~Present(Specs[i], e)}

----------------------------------------------------------------------------
(* C1 *)

\* C1: every pass evaluates 'required' against the environment of that pass.
\* After any Parse during which some required slot's key was absent, the pass
\* returned an error; and when all present values convert and no default
\* literal fails to convert, that error is 'field is required' naming the
\* first absent required slot in slot order.
C1_RequiredEveryPass ==
    (last.op = "Parse" /\ AbsentRequired(environ) # {}) =>
        /\ IsErr(last.err)
        /\ (AllPresentConvert(environ) /\ NoDefaultFails(environ)) =>
               last.err = Err("FieldIsRequired",
                              Specs[First(AbsentRequired(environ))].name, <<>>)

\* C1 witness: a pass fails with 'field is required' on a slot that holds the
\* value 1, which only an earlier pass can have bound from the environment
C1_Witness ==
    /\ last.op = "Parse"
    /\ AbsentRequired(environ) # {}
    /\ AllPresentConvert(environ) /\ NoDefaultFails(environ)
    /\ last.err.kind = "FieldIsRequired"
    /\ LET sp == Specs[First(AbsentRequired(environ))]
       IN  dest[sp.dest] = IntVal(1) /\ dest0[sp.dest] # IntVal(1)

----------------------------------------------------------------------------
(* C2 *)

\* the value a text converts to for a slot of type typ
Converted(typ, s) == ParseValue(typ, Zero(typ), s).val

\* C2: after a successful Parse, every single-value slot declared with a
\* default tag holds the converted environment value when its key is present
\* (the environment value wins over the default), and the converted default
\* literal of the slot when its key is absent and the literal is not empty.
C2_DefaultOrEnv ==
    (last.op = "Parse" /\ ~IsErr(last.err)) =>
        \A i \in SlotIds :
            (Specs[i].hasDefault /\ ~Specs[i].multiple) =>
                /\ Present(Specs[i], environ) =>
                       dest[Specs[i].dest] = Converted(Specs[i].typ, environ[Specs[i].name])
                /\ (~Present(Specs[i], environ) /\ Specs[i].defaultVal # <<>>) =>
                       dest[Specs[i].dest] = Converted(Specs[i].typ, Specs[i].defaultVal)

\* C2 witness: a successful pass in which one slot with a default tag took the
\* environment value 1 instead of its default, and another one, whose key is
\* absent, was changed to its converted default
C2_Witness ==
    /\ last.op = "Parse" /\ ~IsErr(last.err)
    /\ \E i \in SlotIds :
           /\ Specs[i].hasDefault /\ ~Specs[i].multiple
           /\ Present(Specs[i], environ)
           /\ Specs[i].defaultVal = <<"2">>
           /\ dest[Specs[i].dest] = IntVal(1)
    /\ \E j \in SlotIds :
           /\ Specs[j].hasDefault /\ ~Specs[j].multiple
           /\ ~Present(Specs[j], environ)
           /\ Specs[j].defaultVal # <<>>
           /\ dest[Specs[j].dest] = Converted(Specs[j].typ, Specs[j].defaultVal)
           /\ dest[Specs[j].dest] # dest0[Specs[j].dest]

----------------------------------------------------------------------------
(* C3 *)

\* the fields of the destination that hold a value: index path and type
LeafSet == {Leaves(fields, <<>>, 1)[k] : k \in 1..Len(Leaves(fields, <<>>, 1))}

\* the slots that write the field at index path p
SlotsAt(p) == {i \in SlotIds : Specs[i].dest = p}

\* the scalar (int, bool) fields that were nonzero when NewParser ran
PresetScalars ==
    {lf \in LeafSet : Kind(lf.typ) \in {"Int", "Bool"} /\ ~isZero(lf.typ, dest0[lf.path])}

\* C3: a scalar field that was nonzero before NewParser holds that same value
\* after every successful Parse whose environment does not contain the
\* field's key.
C3_PresetKept ==
    (last.op = "Parse" /\ ~IsErr(last.err)) =>
        \A lf \in PresetScalars :
            (\A i \in SlotsAt(lf.path) : ~Present(Specs[i], environ)) =>
                dest[lf.path] = dest0[lf.path]

\* C3 witness: a successful pass that bound one slot from the environment and
\* left a preset scalar slot, whose key is absent, at its preset value
C3_Witness ==
    /\ last.op = "Parse" /\ ~IsErr(last.err)
    /\ \E lf \in PresetScalars :
           /\ SlotsAt(lf.path) # {}
           /\ \A i \in SlotsAt(lf.path) : ~Present(Specs[i], environ)
           /\ dest[lf.path] = dest0[lf.path]
    /\ \E p \in bound : dest[p] # dest0[p]

----------------------------------------------------------------------------
(* C4 *)

\* the parts of a comma-separated value, each converted to an integer
PartsOf(value) ==
    [k \in 1..Len(Split(value, ",")) |-> ParseInt(Split(value, ",")[k]).n]

\* the pass over the environment e gets as far as slot i: the value of every
\* present slot before it converts
Reached(i, e) ==
    \A j \in 1..(i - 1) : Present(Specs[j], e) => Converts(Specs[j], e)

\* C4: when the key of a multi-value slot is present and every element
\* converts, then after a Parse that got as far as that slot the destination
\* slice is exactly the sequence of the converted parts, in order, whatever
\* the slice held before.
C4_SliceReplaced ==
    last.op = "Parse" =>
        \A i \in SlotIds :
            (/\ Specs[i].multiple
             /\ Present(Specs[i], environ)
             /\ Converts(Specs[i], environ)
             /\ Reached(i, environ))
                => dest[Specs[i].dest] = SliceVal(PartsOf(environ[Specs[i].name]))

\* C4 witness: a slice that held [4] before the parser was built holds [3, 1]
\* after a pass with the value "3,1"
C4_Witness ==
    /\ last.op = "Parse"
    /\ \E i \in SlotIds :
           /\ Specs[i].multiple
           /\ Present(Specs[i], environ)
           /\ environ[Specs[i].name] = <<"3", ",", "1">>
           /\ dest0[Specs[i].dest] = SliceVal(<<4>>)
           /\ dest[Specs[i].dest] = SliceVal(<<3, 1>>)

----------------------------------------------------------------------------
(* C5 *)

\* slot i was bound from the environment by the pass that just ended, and its
\* key is not in the environment of the pass that follows
BoundThenAbsent(i) ==
    /\ last.op = "Parse" /\ last'.op = "Parse"
    /\ Specs[i].dest \in bound
    /\ ~Present(Specs[i], environ')

\* C5 as stated: for every slot, with or without a default literal, a field
\* bound from the environment by one Parse still holds that value after a
\* following Parse whose environment no longer contains the slot's key.
C5_KeptAsStated ==
    [][\A i \in SlotIds :
           BoundThenAbsent(i) => dest'[Specs[i].dest] = dest[Specs[i].dest]]_vars

\* C5 amended: a field bound from the environment by one Parse still holds that
\* value after a following Parse whose environment no longer contains the
\* slot's key only when the slot's default literal is empty; a slot with a
\* non-empty default literal (from the default tag, or from a value that was
\* nonzero when the parser was built) holds the converted default literal
\* after a following Parse that succeeds.
C5_KeptUnlessDefault ==
    [][\A i \in SlotIds :
           BoundThenAbsent(i) =>
               /\ Specs[i].defaultVal = <<>> =>
                      dest'[Specs[i].dest] = dest[Specs[i].dest]
               /\ (Specs[i].defaultVal # <<>> /\ ~IsErr(last'.err)) =>
                      dest'[Specs[i].dest] = Converted(Specs[i].typ, Specs[i].defaultVal)]_vars

\* C5 witness: after a pass whose environment lacks the slot's key, a slot
\* without a default literal still holds the value 1 that an earlier pass bound
C5_Witness ==
    /\ last.op = "Parse"
    /\ \E i \in SlotIds :
           /\ Specs[i].defaultVal = <<>>
           /\ ~Present(Specs[i], environ)
           /\ Specs[i].dest \notin bound
           /\ dest[Specs[i].dest] = IntVal(1)
           /\ dest0[Specs[i].dest] = IntVal(0)

----------------------------------------------------------------------------
(* C6 *)

\* C6: Parse is idempotent.  In every state a Parse has produced, running
\* Parse once more with the same environment leaves every field of the
\* destination as it is and returns the same error or success.
C6_Idempotent ==
    last.op = "Parse" =>
        /\ process(Specs, dest, environ).dest = dest
        /\ process(Specs, dest, environ).err = last.err

\* C6 witness: a successful pass that changed a scalar field from the
\* environment and filled another one from its default literal
C6_Witness ==
    /\ last.op = "Parse" /\ ~IsErr(last.err)
    /\ \E i \in SlotIds :
           /\ Kind(Specs[i].typ) \in {"Int", "Bool"}
           /\ Specs[i].dest \in bound
           /\ dest[Specs[i].dest] # dest0[Specs[i].dest]
    /\ \E j \in SlotIds :
           /\ Kind(Specs[j].typ) \in {"Int", "Bool"}
           /\ Specs[j].dest \notin bound
           /\ Specs[j].defaultVal # <<>>
           /\ dest[Specs[j].dest] # dest0[Specs[j].dest]

----------------------------------------------------------------------------
(* C7 *)

\* the options of an env tag
Options(tag) == {TrimLeft(Split(tag, ",")[k]) : k \in 1..Len(Split(tag, ","))}

\* the field carries the 'required' option and a default tag
RequiredAndDefault(f) == t_required \in Options(f.env) /\ f.hasDefault

\* the fields before field k are accepted by the walk
AcceptedBefore(k) == ~IsErr(specsFromStruct(SubSeq(fields, 1, k - 1)).err)

\* C7: once NewParser has run on a struct with a field that carries both the
\* 'required' option and a default tag, no parser exists, whatever the
\* environment holds and without any Parse; and when the fields before it are
\* accepted, the error returned is "'required' cannot be used when a default
\* value is specified", reported for that field.
C7_RequiredWithDefault ==
    parser.state # "none" =>
        \A k \in 1..Len(fields) :
            RequiredAndDefault(fields[k]) =>
                /\ parser.state = "failed"
                /\ last = Op("NewParser", parser.err)
                /\ AcceptedBefore(k) =>
                       parser.err = Err("RequiredWithDefault",
                                        <<".">> \o fields[k].name, <<>>)

\* C7 witness: NewParser has failed on a second field that is required and
\* has a default, in a non-empty environment
C7_Witness ==
    /\ parser.state = "failed"
    /\ last.op = "NewParser"
    /\ environ # <<>>
    /\ Len(fields) = 2
    /\ RequiredAndDefault(fields[2])
    /\ parser.err = Err("RequiredWithDefault", <<".", "B">>, <<>>)

----------------------------------------------------------------------------
(* C8 *)

\* the field is a slice field with a default tag
SliceAndDefault(f) == Kind(f.typ) = "Slice" /\ f.hasDefault /\ ~isIgnored(f.env)

\* C8: once NewParser has run on a struct with a slice field that carries a
\* default tag, no parser exists, whatever the environment holds; and when
\* the fields before it and the field's own env tag are accepted, the error
\* returned is "default values are not supported for slice fields", reported
\* for that field.
C8_DefaultForSlice ==
    parser.state # "none" =>
        \A k \in 1..Len(fields) :
            SliceAndDefault(fields[k]) =>
                /\ parser.state = "failed"
                /\ last = Op("NewParser", parser.err)
                /\ (AcceptedBefore(k) /\ Options(fields[k].env) \subseteq {<<>>}) =>
                       parser.err = Err("DefaultValueForSlice",
                                        <<".">> \o fields[k].name, <<>>)

\* C8 witness: NewParser has failed on a slice field with a default tag that
\* follows an accepted field, in a non-empty environment
C8_Witness ==
    /\ parser.state = "failed"
    /\ last.op = "NewParser"
    /\ environ # <<>>
    /\ Len(fields) = 2
    /\ SliceAndDefault(fields[2])
    /\ parser.err = Err("DefaultValueForSlice", <<".", "B">>, <<>>)

----------------------------------------------------------------------------
(* C9 *)

\* the field declaration at an index path
RECURSIVE FieldAt(_, _)
FieldAt(fs, path) ==
    IF Len(path) = 1 THEN fs[path[1]] ELSE FieldAt(fs[path[1]].sub, Tail(path))

\* the slots declared with a default tag whose field was nonzero when the
\* parser was built
PresetWithTag ==
    {i \in SlotIds : /\ Specs[i].hasDefault
                     /\ ~isZero(Specs[i].typ, dest0[Specs[i].dest])}

\* C9 as stated: for a field that is nonzero at construction and carries a
\* default tag, the slot's default literal is the value of the tag.
C9_TagWins ==
    parser.state = "ok" =>
        \A i \in PresetWithTag :
            Specs[i].defaultVal = FieldAt(fields, Specs[i].dest).defaultTag

\* C9 amended: for a field that is nonzero at construction and carries a
\* default tag, the slot's default literal is the textual form of the
\* pre-existing value, not the value of the tag: Help shows that text, and a
\* successful Parse with the key absent leaves the field at the pre-existing
\* value.  The tag value is the default literal only when the field is zero at
\* construction.
C9_PresetWins ==
    parser.state = "ok" =>
        \A i \in SlotIds :
            Specs[i].hasDefault =>
                IF isZero(Specs[i].typ, dest0[Specs[i].dest])
                THEN Specs[i].defaultVal = FieldAt(fields, Specs[i].dest).defaultTag
                ELSE /\ Specs[i].defaultVal = Sprintv(Specs[i].typ, dest0[Specs[i].dest])
                     /\ defaultAnnotation(Specs[i].defaultVal) =
                            <<" ", "[", "d", "e", "f", "a", "u", "l", "t", ":", " ">>
                                \o Sprintv(Specs[i].typ, dest0[Specs[i].dest]) \o <<"]">>
                     /\ (last.op = "Parse" /\ ~IsErr(last.err) /\ ~Present(Specs[i], environ))
                            => dest[Specs[i].dest] = dest0[Specs[i].dest]

\* C9 witness: a field declared with default "2" that held 3 at construction
\* holds 3, and has the default literal "3", after a successful pass that did
\* not find its key
C9_Witness ==
    /\ last.op = "Parse" /\ ~IsErr(last.err)
    /\ \E i \in PresetWithTag :
           /\ FieldAt(fields, Specs[i].dest).defaultTag = <<"2">>
           /\ ~Present(Specs[i], environ)
           /\ Specs[i].defaultVal = <<"3">>
           /\ dest[Specs[i].dest] = IntVal(3)

----------------------------------------------------------------------------
(* C10 *)

\* the field is tagged with the exclude token
Excluded(f) == f.env = <<"-">>

\* the struct type without its excluded fields
Kept(fs) == SelectSeq(fs, LAMBDA f : ~Excluded(f))

\* what identifies a slot apart from the position of its field
Slot(sp) == [sp EXCEPT !.dest = <<>>]

\* C10: a field tagged "-" never becomes a slot and is never written: no slot
\* points at or below it, every value at or below it is the one it held when
\* the parser was built, and NewParser returns what it returns for the struct
\* without the excluded fields (the same error or success, whatever the type
\* of the excluded field, and the same slots for the other fields).
C10_ExcludedField ==
    parser.state # "none" =>
        /\ \A i \in SlotIds : ~Excluded(fields[Specs[i].dest[1]])
        /\ \A p \in DOMAIN dest : Excluded(fields[p[1]]) => dest[p] = dest0[p]
        /\ parser.err = specsFromStruct(Kept(fields)).err
        /\ parser.state = "ok" =>
               [i \in SlotIds |-> Slot(Specs[i])]
                   = [i \in 1..Len(specsFromStruct(Kept(fields)).specs) |->
                          Slot(implicitDefault(
                                   [specsFromStruct(Kept(fields)).specs[i]
                                        EXCEPT !.dest = Specs[i].dest], dest0))]

\* C10 witness: a parser built over a struct with an excluded field of an
\* unsupported type (an interface, or an embedded pointer to a struct) has
\* bound a sibling field in a pass whose environment holds the lower-cased
\* name of the excluded field
C10_Witness ==
    /\ last.op = "Parse" /\ ~IsErr(last.err)
    /\ \E k \in 1..Len(fields) :
           /\ Excluded(fields[k])
           /\ ~canParse(fields[k].typ).parseable
           /\ ToLower(fields[k].name) \in DOMAIN environ
    /\ \E p \in bound : dest[p] # dest0[p]

----------------------------------------------------------------------------
(* C11 *)

\* every field of the struct, taken alone, is accepted by NewParser
EachFieldAccepted ==
    \A k \in 1..Len(fields) :
        ~IsErr(walkFieldsImpl(<<fields[k]>>, <<>>, <<>>, 1, <<>>).err)

\* the slots that share their key with another slot
SharedKey == {i \in SlotIds : \E j \in SlotIds : j # i /\ Specs[j].name = Specs[i].name}

\* the value the environment gives slot i
EnvValueOf(i) ==
    IF Specs[i].multiple THEN SliceVal(PartsOf(environ[Specs[i].name]))
    ELSE Converted(Specs[i].typ, environ[Specs[i].name])

\* C11: fields that resolve to the same environment key do not make
\* construction fail (a struct whose fields are each accepted is accepted),
\* every slot has a destination of its own, and after a Parse that finds the
\* key, each of the slots that share it holds the converted value (each slot
\* the pass gets to, when its own conversion succeeds).
C11_SharedKey ==
    parser.state # "none" =>
        /\ EachFieldAccepted => parser.state = "ok"
        /\ \A i, j \in SlotIds : i # j => Specs[i].dest # Specs[j].dest
        /\ last.op = "Parse" =>
               \A i \in SharedKey :
                   (Present(Specs[i], environ) /\ Converts(Specs[i], environ)
                        /\ Reached(i, environ))
                       => dest[Specs[i].dest] = EnvValueOf(i)

\* C11 witness: two embedded structs with a field A each; a successful pass
\* with the key a has changed both fields to 1
C11_Witness ==
    /\ last.op = "Parse" /\ ~IsErr(last.err)
    /\ Len(Specs) = 2
    /\ Specs[1].dest = <<1, 1>> /\ Specs[2].dest = <<2, 1>>
    /\ Specs[1].name = Specs[2].name
    /\ Present(Specs[1], environ)
    /\ dest[<<1, 1>>] = IntVal(1) /\ dest[<<2, 1>>] = IntVal(1)
    /\ dest0[<<1, 1>>] # IntVal(1) /\ dest0[<<2, 1>>] # IntVal(1)

----------------------------------------------------------------------------
(* C12 *)

\* the non-empty tokens of an env tag, in order, without leading blanks
Tokens(tag) ==
    LET raw == SelectSeq(Split(tag, ","), LAMBDA t : t # <<>>)
    IN  [k \in 1..Len(raw) |-> TrimLeft(raw[k])]

\* the key and the value of a token: the text before and after its first colon
TokKey(t) == IF Index(t, ":") = 0 THEN t ELSE SubSeq(t, 1, Index(t, ":") - 1)

TokValue(t) == IF Index(t, ":") = 0 THEN <<>> ELSE SubSeq(t, Index(t, ":") + 1, Len(t))

\* the token is a name option with a value
IsNameOption(t) == TokKey(t) = t_name /\ TokValue(t) # <<>>

\* the positions of the name options of a tag
NameOptions(tag) == {k \in 1..Len(Tokens(tag)) : IsNameOption(Tokens(tag)[k])}

\* the greatest element of a non-empty set of positions
LastOf(S) == CHOOSE i \in S : \A j \in S : j <= i

\* the key the claim gives a field: the value of its name option, else the
\* lower-cased field name
ExpectedKey(f) ==
    IF NameOptions(f.env) = {} THEN ToLower(f.name)
    ELSE TokValue(Tokens(f.env)[LastOf(NameOptions(f.env))])

\* C12: the key of every slot is the lower-cased field name unless the env
\* tag has a name option with a value, and then it is exactly that value; the
\* lookup is case-sensitive: a pass binds a slot only when exactly its key is
\* in the environment, and binds it when it is (the pass getting as far as
\* the slot and the value converting).
C12_SlotKey ==
    parser.state = "ok" =>
        \A i \in SlotIds :
            /\ Specs[i].name = ExpectedKey(FieldAt(fields, Specs[i].dest))
            /\ last.op = "Parse" =>
                   /\ Specs[i].dest \in bound
                          => ExpectedKey(FieldAt(fields, Specs[i].dest)) \in DOMAIN environ
                   /\ (/\ ExpectedKey(FieldAt(fields, Specs[i].dest)) \in DOMAIN environ
                       /\ Converts(Specs[i], environ)
                       /\ Reached(i, environ))
                          => /\ Specs[i].dest \in bound
                             /\ dest[Specs[i].dest] =
                                    Converted(Specs[i].typ,
                                              environ[ExpectedKey(FieldAt(fields, Specs[i].dest))])

\* C12 witness: fields named v and V by their tags and an environment with the
\* key V only; the pass has bound the second field and not the first
C12_Witness ==
    /\ last.op = "Parse" /\ ~IsErr(last.err)
    /\ Len(Specs) = 2
    /\ Specs[1].name = <<"v">> /\ Specs[2].name = <<"V">>
    /\ DOMAIN environ = {<<"V">>}
    /\ bound = {Specs[2].dest}
    /\ dest[Specs[2].dest] = IntVal(1)
    /\ dest[Specs[1].dest] = IntVal(0)

----------------------------------------------------------------------------
(* C13 *)

\* the field is looked at by the walk as a slot: it is not excluded and is
\* not an embedded struct that the walk descends into
Classified(f) == ~Excluded(f) /\ ~(f.anonymous /\ Kind(f.typ) = "Struct")

\* the positions of the tokens that are neither a name option with a value
\* nor 'required'
Offending(tag) ==
    {k \in 1..Len(Tokens(tag)) :
         ~IsNameOption(Tokens(tag)[k]) /\ TokKey(Tokens(tag)[k]) # t_required}

----------------------------------------------------------------------------
(* C14 *)

\* the env tag is a single bare token: no comma, no colon, not 'required',
\* not the exclude token
BareToken(tag) ==
    /\ tag # <<>>
    /\ Index(tag, ",") = 0 /\ Index(tag, ":") = 0
    /\ tag # t_required /\ tag # <<"-">>

\* C14 as stated: a field whose env tag is a single bare token is accepted by
\* NewParser (when the fields before and after it are) and its slot has the
\* token as its key.
C14_BareTokenIsKey ==
    parser.state # "none" =>
        \A k \in 1..Len(fields) :
            (/\ BareToken(fields[k].env)
             /\ \A j \in 1..Len(fields) :
                    j # k => ~IsErr(walkFieldsImpl(<<fields[j]>>, <<>>, <<>>, 1, <<>>).err))
                => /\ parser.state = "ok"
                   /\ \E i \in SlotIds : Specs[i].dest = <<k>> /\ Specs[i].name = fields[k].env

----------------------------------------------------------------------------
(* C15 *)

\* the field's type has no classification: an interface, a slice of
\* interfaces, a struct that is not embedded, an embedded pointer to a struct
Unclassifiable(f) ==
    \/ f.typ \in {"interface{}", "[]interface{}"}
    \/ f.typ = "T" /\ ~f.anonymous
    \/ f.typ = "*T"

\* C15: once NewParser has run on a struct with a non-excluded field whose
\* type cannot be classified, no parser exists (so the error is never left to
\* Parse), whether or not the environment holds the field's key; and when the
\* fields before it and the field's env tag are accepted, the error returned
\* is 'fields are not supported', reported for that field.
C15_NotSupported ==
    parser.state # "none" =>
        \A k \in 1..Len(fields) :
            (Unclassifiable(fields[k]) /\ ~Excluded(fields[k])) =>
                /\ parser.state = "failed"
                /\ last = Op("NewParser", parser.err)
                /\ (AcceptedBefore(k) /\ Offending(fields[k].env) = {}) =>
                       parser.err = Err("FieldsAreNotSupported",
                                        <<".">> \o fields[k].name, <<>>)

\* C15 witness: NewParser has failed on an embedded pointer to a struct that
\* follows an accepted field, in an environment without the field's key
C15_Witness ==
    /\ parser.state = "failed"
    /\ last.op = "NewParser"
    /\ Len(fields) = 2
    /\ fields[2].typ = "*T" /\ fields[2].anonymous
    /\ ToLower(fields[2].name) \notin DOMAIN environ
    /\ environ # <<>>
    /\ parser.err = Err("FieldsAreNotSupported", <<".", "U">>, <<>>)

----------------------------------------------------------------------------
(* C16 *)

\* the type that carries the custom decoder of the field's type: the type
\* itself or the one it points to, "" when there is none
DecoderType(typ) ==
    IF implementsTextUnmarshaler(typ) THEN typ
    ELSE IF Kind(typ) = "Ptr" /\ implementsTextUnmarshaler(Elem(typ)) THEN Elem(typ)
    ELSE ""

\* the texts the decoder of an element gets: the comma-separated parts
DecodedParts(typ, value) ==
    [k \in 1..Len(Split(value, ",")) |-> UnmarshalText(Elem(typ), Split(value, ",")[k]).v[1]]

\* C16: a non-excluded field whose type, or the type it points to, has a
\* custom decoder becomes exactly one slot, neither boolean nor multi-value,
\* whether the type is shaped like a bool or like a slice; a pass that finds
\* its key stores what the decoder makes of the whole value, commas included.
\* A slice whose elements have the decoder is one multi-value slot, and a
\* pass stores what the decoder makes of each comma-separated part.
C16_TextUnmarshaler ==
    parser.state = "ok" =>
        \A k \in 1..Len(fields) :
            /\ DecoderType(fields[k].typ) # "" =>
                   /\ Cardinality(SlotsAt(<<k>>)) = 1
                   /\ \A i \in SlotsAt(<<k>>) :
                          /\ ~Specs[i].boolean /\ ~Specs[i].multiple
                          /\ (last.op = "Parse" /\ Present(Specs[i], environ)
                                  /\ Reached(i, environ))
                                 => dest[<<k>>] = UnmarshalText(DecoderType(fields[k].typ),
                                                                environ[Specs[i].name])
            /\ (Kind(fields[k].typ) = "Slice" /\ DecoderType(fields[k].typ) = ""
                    /\ implementsTextUnmarshaler(Elem(fields[k].typ))) =>
                   /\ Cardinality(SlotsAt(<<k>>)) = 1
                   /\ \A i \in SlotsAt(<<k>>) :
                          /\ ~Specs[i].boolean /\ Specs[i].multiple
                          /\ (last.op = "Parse" /\ Present(Specs[i], environ)
                                  /\ Reached(i, environ))
                                 => dest[<<k>>] =
                                        SliceVal(DecodedParts(fields[k].typ,
                                                              environ[Specs[i].name]))

\* C16 witness: after a pass with a = "3,1" and b = "3,1", a sliceUnmarshaler
\* field holds [3], the length of the whole value, and a []textUnmarshaler
\* field holds [1, 1], the lengths of the two parts
C16_Witness ==
    /\ last.op = "Parse" /\ ~IsErr(last.err)
    /\ Len(fields) = 2
    /\ fields[1].typ = "sliceUnmarshaler" /\ fields[2].typ = "[]textUnmarshaler"
    /\ environ = [k \in Keys |-> <<"3", ",", "1">>]
    /\ dest[<<1>>] = SliceVal(<<3>>)
    /\ dest[<<2>>] = SliceVal(<<1, 1>>)

----------------------------------------------------------------------------
(* C17 *)

\* the slots whose field is a pointer
PtrSlots == {i \in SlotIds : Kind(Specs[i].typ) = "Ptr"}

\* C17: a pointer field that is nil before a Parse is nil after that Parse,
\* if it succeeds, exactly when its key is not in the environment and its
\* slot has no non-empty default literal; otherwise it points to the
\* converted environment value, or to the converted default literal when the
\* key is absent.
C17_NilPointer ==
    [][(last'.op = "Parse" /\ ~IsErr(last'.err)) =>
           \A i \in PtrSlots :
               dest[Specs[i].dest].nil =>
                   /\ dest'[Specs[i].dest].nil
                          <=> (~Present(Specs[i], environ') /\ Specs[i].defaultVal = <<>>)
                   /\ Present(Specs[i], environ') =>
                          dest'[Specs[i].dest] = Converted(Specs[i].typ, environ'[Specs[i].name])
                   /\ (~Present(Specs[i], environ') /\ Specs[i].defaultVal # <<>>) =>
                          dest'[Specs[i].dest] = Converted(Specs[i].typ, Specs[i].defaultVal)]_vars

\* C17 witness: after a successful pass one pointer field, whose key was
\* found, points to 12, and another one, whose key is absent and which has no
\* default, is nil
C17_Witness ==
    /\ last.op = "Parse" /\ ~IsErr(last.err)
    /\ \E i, j \in PtrSlots :
           /\ Present(Specs[i], environ)
           /\ dest0[Specs[i].dest].nil
           /\ dest[Specs[i].dest] = IntVal(12)
           /\ ~Present(Specs[j], environ)
           /\ Specs[j].defaultVal = <<>>
           /\ dest[Specs[j].dest].nil

----------------------------------------------------------------------------
(* C18 *)

\* C18 as stated: when construction or binding fails, MustParse terminates
\* the process instead of returning, and NewParser, Parser.Parse and the
\* one-shot Parse return the error to their caller.
C18_MustParseExits ==
    /\ (last.op = "MustParse" /\ IsErr(last.err)) => exited
    /\ (last.op \in {"NewParser", "Parse", "ParseDest"} /\ IsErr(last.err)) => ~exited

----------------------------------------------------------------------------
(* C19 *)

\* the default literal of slot i as construction captured it: the text of
\* the value the field held then, or the default tag when it was zero
CapturedDefault(i) ==
    IF isZero(Specs[i].typ, dest0[Specs[i].dest])
    THEN FieldAt(fields, Specs[i].dest).defaultTag
    ELSE Sprintv(Specs[i].typ, dest0[Specs[i].dest])

\* C19: once built, the schema is not changed by any step (Parse, Help, an
\* assignment by the caller): it stays what NewParser made of the struct and
\* of the values the fields held at construction.  Help returns the text for
\* that schema, with the default literals captured at construction, whatever
\* the fields hold now, and changes neither the schema nor the destination.
C19_SchemaFixed ==
    [][/\ parser.state = "ok" => parser' = parser
       /\ parser'.state = "ok" =>
              /\ parser' = newParser(fields', dest0')
              /\ \A i \in 1..Len(parser'.specs) :
                     parser'.specs[i].defaultVal =
                         IF isZero(parser'.specs[i].typ, dest0'[parser'.specs[i].dest])
                         THEN FieldAt(fields', parser'.specs[i].dest).defaultTag
                         ELSE Sprintv(parser'.specs[i].typ, dest0'[parser'.specs[i].dest])
       /\ last'.op = "Help" =>
              /\ dest' = dest
              /\ out' = writeHelp(dest0', newParser(fields', dest0').specs)]_vars

\* C19 witness: Help has run after a pass bound a field and after the caller
\* assigned 5 to a field that held 3 at construction; the text shows 3
C19_Witness ==
    /\ last.op = "Help"
    /\ bound # {}
    /\ \E i \in SlotIds :
           /\ dest0[Specs[i].dest] = IntVal(3)
           /\ dest[Specs[i].dest] = IntVal(5)
           /\ CapturedDefault(i) = <<"3">>
           /\ Specs[i].defaultVal = <<"3">>
    /\ out = writeHelp(dest0, Specs)
    /\ out # writeHelp(dest0, [i \in SlotIds |-> implicitDefault(Specs[i], dest)])

----------------------------------------------------------------------------
(* C20 *)

\* the present slots whose value in the environment e does not convert
Failing(e) == {i \in SlotIds : Present(Specs[i], e) /\ ~Converts(Specs[i], e)}

\* C20: in every Parse, required checks and default filling come after the
\* values of all present slots have been converted and assigned.  When a
\* present value does not convert, the pass returns the conversion error of
\* the first such slot, naming its key, also when a required slot before it is
\* absent, and no absent slot is written (no default literal is applied).
\* When all present values convert, every present slot holds its converted
\* value after the pass, also when the pass then fails on a required slot or
\* on a default literal.
C20_CaptureFirst ==
    [][last'.op = "Parse" =>
           IF Failing(environ') # {}
           THEN /\ last'.err.kind \in {"EnvVar", "EnvVarMultiple"}
                /\ last'.err.where = Specs[First(Failing(environ'))].name
                /\ \A i \in SlotIds :
                       ~Present(Specs[i], environ') =>
                           dest'[Specs[i].dest] = dest[Specs[i].dest]
           ELSE \A i \in SlotIds :
                    Present(Specs[i], environ') =>
                        dest'[Specs[i].dest] =
                            IF Specs[i].multiple
                            THEN SliceVal(PartsOf(environ'[Specs[i].name]))
                            ELSE Converted(Specs[i].typ, environ'[Specs[i].name])]_vars

\* C20 witness: a pass has returned the conversion error of the second slot
\* although the first slot is required and its key is absent
C20_Witness ==
    /\ last.op = "Parse"
    /\ Len(Specs) = 2
    /\ Specs[1].required /\ ~Present(Specs[1], environ)
    /\ Failing(environ) = {2}
    /\ last.err = Err("EnvVar", Specs[2].name, <<>>)

----------------------------------------------------------------------------
(* C21 *)

\* the default literal of slot i converts to the slot's type
DefaultConverts(i) ==
    ParseValue(Specs[i].typ, Zero(Specs[i].typ), Specs[i].defaultVal).ok

\* the absent slots at which the second loop of a pass over e fails: a
\* required slot, or one whose non-empty default literal does not convert
FailingAbsent(e) ==
    {i \in SlotIds : /\ ~Present(Specs[i], e)
                     /\ \/ Specs[i].required
                        \/ Specs[i].defaultVal # <<>> /\ ~DefaultConverts(i)}

\* the value a present slot takes from the environment e
TakenFrom(i, e) ==
    IF Specs[i].multiple THEN SliceVal(PartsOf(e[Specs[i].name]))
    ELSE Converted(Specs[i].typ, e[Specs[i].name])

\* C21: a Parse stops at its first failure and returns one error, the one of
\* the failing step.  When the value of a present slot k is the first that
\* does not convert, the present slots before k hold their converted values
\* and every other slot but k holds what it held before the pass.  When all
\* present values convert and the absent slot k is the first that is required
\* or has a default literal that does not convert, every present slot holds
\* its converted value, the absent slots before k with a default literal hold
\* the converted literal, and every other slot but k holds what it held before
\* the pass.  A pass without a failing step returns no error.
C21_StopsAtFirstFailure ==
    [][last'.op = "Parse" =>
           /\ Failing(environ') # {} =>
                  /\ last'.err.kind \in {"EnvVar", "EnvVarMultiple"}
                  /\ last'.err.where = Specs[First(Failing(environ'))].name
                  /\ \A i \in SlotIds \ {First(Failing(environ'))} :
                         dest'[Specs[i].dest] =
                             IF Present(Specs[i], environ') /\ i < First(Failing(environ'))
                             THEN TakenFrom(i, environ')
                             ELSE dest[Specs[i].dest]
           /\ (Failing(environ') = {} /\ FailingAbsent(environ') # {}) =>
                  /\ last'.err =
                         Err(IF Specs[First(FailingAbsent(environ'))].required
                             THEN "FieldIsRequired" ELSE "DefaultValue",
                             Specs[First(FailingAbsent(environ'))].name, <<>>)
                  /\ \A i \in SlotIds \ {First(FailingAbsent(environ'))} :
                         dest'[Specs[i].dest] =
                             IF Present(Specs[i], environ')
                             THEN TakenFrom(i, environ')
                             ELSE IF i < First(FailingAbsent(environ'))
                                     /\ Specs[i].defaultVal # <<>>
                             THEN Converted(Specs[i].typ, Specs[i].defaultVal)
                             ELSE dest[Specs[i].dest]
           /\ (Failing(environ') = {} /\ FailingAbsent(environ') = {}) =>
                  ~IsErr(last'.err)]_vars

\* C21 witness: a pass wrote the default literal of the first slot and then
\* failed on the second, a required slot whose key is absent
C21_Witness ==
    /\ last.op = "Parse"
    /\ Len(Specs) = 2
    /\ Failing(environ) = {} /\ First(FailingAbsent(environ) \cup {3}) = 2
    /\ ~Present(Specs[1], environ) /\ Specs[1].defaultVal # <<>>
    /\ last.err = Err("FieldIsRequired", Specs[2].name, <<>>)
    /\ dest[Specs[1].dest] = Converted(Specs[1].typ, Specs[1].defaultVal)
    /\ dest[Specs[1].dest] # dest0[Specs[1].dest]

----------------------------------------------------------------------------
(* C22 *)

\* C22: in every parser that NewParser returned without an error, no
\* multi-value slot carries a non-empty default literal, also when the slice
\* was not nil when the parser was built.
C22_NoSliceDefault ==
    parser.state = "ok" =>
        \A i \in SlotIds : Specs[i].multiple => Specs[i].defaultVal = <<>>

----------------------------------------------------------------------------
(* C23 *)

\* C23: in every parser that NewParser returned without an error, no slot is
\* required and carries a non-empty default literal, also when the field of a
\* required slot held a nonzero value when the parser was built.
C23_RequiredNoDefault ==
    parser.state = "ok" =>
        \A i \in SlotIds : ~(Specs[i].required /\ Specs[i].defaultVal # <<>>)

----------------------------------------------------------------------------
(* C24 *)

BoolParts(value) ==
    [k \in 1..Len(Split(value, ",")) |-> ParseBool(Split(value, ",")[k]).n]

----------------------------------------------------------------------------
(* C25 *)

\* part k of the comma-separated value converts to the element type of typ
PartOk(typ, value, k) ==
    IF Elem(typ) = "bool" THEN ParseBool(Split(value, ",")[k]).ok
    ELSE ParseInt(Split(value, ",")[k]).ok

\* the converted part k of the comma-separated value
PartVal(typ, value, k) ==
    IF Elem(typ) = "bool" THEN ParseBool(Split(value, ",")[k]).n
    ELSE ParseInt(Split(value, ",")[k]).n

\* the parts of the value that do not convert
BadParts(typ, value) ==
    {k \in 1..Len(Split(value, ",")) : ~PartOk(typ, value, k)}

\* C25: when the key of a multi-value slot is present and part k of its value
\* is the first that does not convert, a Parse that gets as far as the slot
\* returns an error that names the key, and the slice holds exactly the k-1
\* parts converted before the failure: what it held before the pass is
\* discarded and not restored.
C25_PartialSlice ==
    [][last'.op = "Parse" =>
           \A i \in SlotIds :
               ( /\ Specs[i].multiple
                 /\ Present(Specs[i], environ')
                 /\ Reached(i, environ')
                 /\ environ'[Specs[i].name] # <<>>
                 /\ BadParts(Specs[i].typ, environ'[Specs[i].name]) # {} )
               => /\ last'.err = Err("EnvVarMultiple", Specs[i].name, <<>>)
                  /\ dest'[Specs[i].dest].v =
                         [k \in 1..(First(BadParts(Specs[i].typ, environ'[Specs[i].name])) - 1)
                              |-> PartVal(Specs[i].typ, environ'[Specs[i].name], k)]]_vars

\* C25 witness: the second part of "1,x" failed and the slice, which held [4]
\* when the parser was built, holds [1]
C25_Witness ==
    /\ last.op = "Parse"
    /\ \E i \in SlotIds :
           /\ Specs[i].multiple
           /\ Present(Specs[i], environ)
           /\ environ[Specs[i].name] = <<"1", ",", "x">>
           /\ last.err = Err("EnvVarMultiple", Specs[i].name, <<>>)
           /\ dest0[Specs[i].dest] = SliceVal(<<4>>)
           /\ dest[Specs[i].dest] = SliceVal(<<1>>)

----------------------------------------------------------------------------
(* C26 *)

\* the second loop of a pass over e gets as far as the absent slot i: every
\* present value converts and no absent slot before i makes the loop fail
FillReached(i, e) ==
    /\ Failing(e) = {}
    /\ ~Present(Specs[i], e)
    /\ \A j \in 1..(i - 1) : j \notin FailingAbsent(e)

\* C26: the second loop of a pass hands every non-empty default literal to
\* the single-value converter with the field as target, whenever the key is
\* absent and whatever the field holds.  For a slot that is not required and
\* that the loop gets to: a single-value slot whose literal converts holds the
\* converted literal after the pass, also when it held another value before;
\* a multi-value slot, whose literal is the printed form of the slice it held
\* at construction, makes the pass fail with the error for a default value,
\* and the slice is left as it was (it is neither truncated nor split into
\* parts).
C26_DefaultSingleValue ==
    [][last'.op = "Parse" =>
           \A i \in SlotIds :
               ( /\ FillReached(i, environ')
                 /\ ~Specs[i].required
                 /\ Specs[i].defaultVal # <<>> )
               => IF Specs[i].multiple
                  THEN /\ last'.err = Err("DefaultValue", Specs[i].name, <<>>)
                       /\ dest'[Specs[i].dest] = dest[Specs[i].dest]
                  ELSE IF DefaultConverts(i)
                  THEN dest'[Specs[i].dest] = Converted(Specs[i].typ, Specs[i].defaultVal)
                  ELSE last'.err = Err("DefaultValue", Specs[i].name, <<>>)]_vars

\* C26 witness: a pass without the key of a slice that held [4] when the
\* parser was built has failed on the slice's default literal "[4]", and the
\* slice still holds [4]
C26_Witness ==
    /\ last.op = "Parse"
    /\ \E i \in SlotIds :
           /\ Specs[i].multiple
           /\ ~Present(Specs[i], environ)
           /\ Specs[i].defaultVal = <<"[", "4", "]">>
           /\ last.err = Err("DefaultValue", Specs[i].name, <<>>)
           /\ dest[Specs[i].dest] = SliceVal(<<4>>)

----------------------------------------------------------------------------
(* C27 *)

\* the field carries a default tag with the empty literal
EmptyTag(f) == f.hasDefault /\ f.defaultTag = <<>>

\* slot i belongs to a field with an empty default tag
EmptyTagSlot(i) == EmptyTag(FieldAt(fields, Specs[i].dest))

\* the field of slot i was zero when the parser was built
ZeroAtConstruction(i) == isZero(Specs[i].typ, dest0[Specs[i].dest])

\* the line Help prints for a slot without help text whose default literal is lit
OptionLine(i, lit) ==
    <<" ", " ">> \o Specs[i].name
        \o (IF lit = <<>> THEN <<>>
            ELSE <<" ", "[", "d", "e", "f", "a", "u", "l", "t", ":", " ">> \o lit \o <<"]">>)
        \o <<"\n">>

\* the option lines from slot i on, where the slots in noLit show no default
RECURSIVE OptionLines(_, _)
OptionLines(i, noLit) ==
    IF i > Len(Specs) THEN <<>>
    ELSE OptionLine(i, IF i \in noLit THEN <<>> ELSE CapturedDefault(i))
             \o OptionLines(i + 1, noLit)

\* the text of Help when the slots in noLit show no default
HelpText(noLit) ==
    <<"E", "n", "v", "i", "r", "o", "n", "m", "e", "n", "t", "s", ":", "\n">>
        \o OptionLines(1, noLit)

\* an empty default tag makes construction fail on a required field and on a
\* slice field, with the errors of a default tag
EmptyTagAtConstruction ==
    parser'.state # "none" =>
        \A k \in 1..Len(fields) :
            (EmptyTag(fields[k]) /\ (fields[k].env = t_required \/ Kind(fields[k].typ) = "Slice"))
                => /\ parser'.state = "failed"
                   /\ AcceptedBefore(k) =>
                          parser'.err =
                              Err(IF fields[k].env = t_required THEN "RequiredWithDefault"
                                  ELSE "DefaultValueForSlice",
                                  <<".">> \o fields[k].name, <<>>)

\* C27 as stated: an empty default tag counts as a default at construction,
\* and for every slot with such a tag a Parse without the key leaves the field
\* as it was before the pass and Help shows no default for it.
C27_EmptyNeverApplied ==
    [][/\ EmptyTagAtConstruction
       /\ last'.op = "Parse" =>
              \A i \in SlotIds :
                  (EmptyTagSlot(i) /\ ~Present(Specs[i], environ'))
                      => dest'[Specs[i].dest] = dest[Specs[i].dest]
       /\ last'.op = "Help" =>
              out' = HelpText({i \in SlotIds : EmptyTagSlot(i)})]_vars

\* C27, corrected: an empty default tag counts as a default at construction
\* (a required field or a slice field with it fails construction).  When the
\* field was zero when the parser was built, the slot has no default literal:
\* a Parse without the key leaves the field as it was before the pass and does
\* not fail on a default for it, and Help shows no default for it.  When the
\* field was not zero then, the printed form of that value is the slot's
\* default literal: a Parse without the key that gets to the slot writes it
\* back, whatever the field holds, and Help shows it.
C27_EmptyUnlessPreset ==
    [][/\ EmptyTagAtConstruction
       /\ last'.op = "Parse" =>
              \A i \in SlotIds :
                  (EmptyTagSlot(i) /\ ~Present(Specs[i], environ'))
                      => IF ZeroAtConstruction(i)
                         THEN /\ dest'[Specs[i].dest] = dest[Specs[i].dest]
                              /\ last'.err # Err("DefaultValue", Specs[i].name, <<>>)
                         ELSE FillReached(i, environ') =>
                                  dest'[Specs[i].dest] = dest0[Specs[i].dest]
       /\ last'.op = "Help" =>
              out' = HelpText({i \in SlotIds : EmptyTagSlot(i) /\ ZeroAtConstruction(i)})]_vars

\* C27 witness: a slot with an empty default tag, zero when the parser was
\* built and bound to 1 by an earlier pass, still holds 1 after a successful
\* pass without its key
C27_Witness ==
    /\ last.op = "Parse"
    /\ ~IsErr(last.err)
    /\ \E i \in SlotIds :
           /\ EmptyTagSlot(i)
           /\ ZeroAtConstruction(i)
           /\ ~Present(Specs[i], environ)
           /\ dest[Specs[i].dest] = IntVal(1)

====
